---- MODULE Spec2Model ----
(***************************************************************************)
(* Model of the cy safety containers (include/CY/safety.hpp, v2.0.0):      *)
(* Maybe<T>, Maybe<T&>, Result<T,E>, Result<T&,E> and Result<void,E>.      *)
(*                                                                         *)
(* A client program holds one container at a time.  It constructs it,      *)
(* calls its member functions in any order and finally lets it go out of   *)
(* scope (the destructor), after which it may construct another one.       *)
(* Every member function is one action.  The outcome of the last call      *)
(* (the returned value, the returned Maybe, or the thrown runtime_error)   *)
(* is kept in ret.                                                         *)
(***************************************************************************)
EXTENDS Integers, Sequences, FiniteSets, TLC

\* Number of distinct payload values of type T.
MaxVal == 2
\* Number of distinct payload values of type E.
MaxErr == 2
\* Number of objects outside the container a Maybe<T&> can be bound to.
MaxAddr == 2
\* Number of distinct results of a transform handed to map.
MaxMapped == 2
\* The count of successful extractions saturates here.
MaxCount == 2
\* Number of threads that share one Result.
NThreads == 2

Values == 1..MaxVal
Errors == 11..(10 + MaxErr)
Addrs == 1..MaxAddr
Mapped == 21..(20 + MaxMapped)
\* The transforms a client can hand to map: std::function<U(T)>.
Transforms == [Values -> Mapped]
Threads == 1..NThreads

VARIABLES
    cls,        \* class of the live container, "NoObject" when there is none
    has_value,  \* Maybe::has_value
    is_error,   \* Result::is_error
    has_data,   \* Result::has_data
    value,      \* union member `value`: <<>> = no object, <<v>> = a T (or T*) object
    error,      \* union member `error`: <<>> = no object, <<e>> = an E object
    mem,        \* the objects outside the container, by address
    ret,        \* outcome of the last call
    v0,         \* the payload the container was constructed from (<<>> if none)
    extracted,  \* successful extractions since construction (saturating)
    took,       \* the member functions that made a successful extraction
    ctor,       \* the constructor the live container was built with
    dtors,      \* payload destructor runs made by the container
    pc,         \* per thread sharing a Result: where it is in its call of unwrap()
    out,        \* per thread sharing a Result: outcome of its call of unwrap()
    mutex,      \* the callers' mutex: 0 = free, else the thread holding it
    sync        \* whether the callers wrap every access in the mutex

\* What belongs to the threads that share a Result.
tvars == <<pc, out, mutex, sync>>

vars == <<cls, has_value, is_error, has_data, value, error, mem, ret, v0,
          extracted, took, ctor, dtors, pc, out, mutex, sync>>

----------------------------------------------------------------------------
(* What a call gives back. *)

\* what() of the runtime_error thrown, without the "Called <func> " prefix.
OnNoneValue == "on a none value"
OnErrorValue == "on an error value"
OnOkValue == "on an ok value"
OnMovedValueT == "on a moved value (Result had T, but was unwrapped)"
OnMovedValueE == "on a moved value (Result had E, but was unwrapped)"

Outcome(op, tag, what, val, at, some, fn, calls) ==
    [op |-> op, tag |-> tag, what |-> what, val |-> val, at |-> at,
     some |-> some, fn |-> fn, calls |-> calls]

\* Nothing returned (constructors, destructors).
Void(op) == Outcome(op, "void", "", <<>>, <<>>, FALSE, <<>>, <<>>)
\* throw std::runtime_error("Called " func " " what)
Throw(func, what) == Outcome(func, "throw", what, <<>>, <<>>, FALSE, <<>>, <<>>)
\* The checks of a member function passed.
NoThrow(func) == Outcome(func, "nothrow", "", <<>>, <<>>, FALSE, <<>>, <<>>)
\* A T& / T&& / E& / E&& into the container's own storage, reading v.
Ref(func, v) == Outcome(func, "value", "", <<v>>, <<>>, FALSE, <<>>, <<>>)
\* A T& to the object at address a outside the container, reading v.
RefTo(func, a, v) == Outcome(func, "value", "", <<v>>, <<a>>, FALSE, <<>>, <<>>)
\* A Maybe returned by value: has_value = some, storage = val.
MaybeOf(func, some, val, at, fn, calls) ==
    Outcome(func, "maybe", "", val, at, some, fn, calls)

\* A bool returned by a query (is_some, is_none, is_ok, is_err).
Bool(func, b) == Outcome(func, "bool", "", <<>>, <<>>, b, <<>>, <<>>)

\* The error kinds of the specification, by the message thrown.
Kind(r) ==
    IF r.tag # "throw" THEN "NoError"
    ELSE IF r.what = OnNoneValue THEN "EmptyAccess"
    ELSE IF r.what \in {OnErrorValue, OnOkValue} THEN "WrongChannel"
    ELSE IF r.what \in {OnMovedValueT, OnMovedValueE} THEN "Consumed"
    ELSE "Other"

\* A moved-from T is valid but unspecified.
MovedFrom(v) == Values
\* A moved-from E is valid but unspecified.
MovedFromErr(e) == Errors

Bump(n) == IF n < MaxCount THEN n + 1 ELSE n

\* Ghost bookkeeping of a successful extraction by member function op.
Extract(op) ==
    /\ extracted' = Bump(extracted)
    /\ took' = took \cup {op}

NoExtract == UNCHANGED <<extracted, took>>

\* Ghost bookkeeping of a construction from payload p (<<>> for none).
Constructed(c, p, op) ==
    /\ cls = "NoObject"
    /\ cls' = c
    /\ v0' = p
    /\ extracted' = 0
    /\ took' = {}
    /\ ctor' = op
    /\ dtors' = 0
    /\ ret' = Void(op)
    /\ UNCHANGED mem
    /\ UNCHANGED tvars

\* A const member function of the container of class c that returns the bool b.
Query(c, func, b) ==
    /\ cls = c
    /\ ret' = Bool(func, b)
    /\ NoExtract
    /\ UNCHANGED <<cls, has_value, is_error, has_data, value, error, mem, v0, ctor, dtors>>
    /\ UNCHANGED tvars

----------------------------------------------------------------------------
(* Maybe<T> *)

is_some == has_value
is_none == ~is_some

\* Maybe(Some<T>) that sets has_value and leaves the storage uninitialized.
Maybe_Some_uninit ==
    \E v \in Values : \E w \in Values :
        /\ Constructed("Maybe", <<v>>, "Maybe(Some)")
        /\ has_value' = TRUE
        /\ value' = <<w>>
        /\ UNCHANGED <<is_error, has_data, error>>

\* Maybe(Some<T> some) : has_value(true), value(std::move(some.val))
Maybe_Some ==
    \E v \in Values :
        /\ Constructed("Maybe", <<v>>, "Maybe(Some)")
        /\ has_value' = TRUE
        /\ value' = <<v>>
        /\ UNCHANGED <<is_error, has_data, error>>

\* Maybe(None) : has_value(false)
Maybe_None ==
    /\ Constructed("Maybe", <<>>, "Maybe(None)")
    /\ has_value' = FALSE
    /\ value' = <<>>
    /\ UNCHANGED <<is_error, has_data, error>>

\* Maybe() : has_value(false)
Maybe_default ==
    /\ Constructed("Maybe", <<>>, "Maybe()")
    /\ has_value' = FALSE
    /\ value' = <<>>
    /\ UNCHANGED <<is_error, has_data, error>>

\* bool is_some() const { return this->has_value; }
Maybe_is_some == Query("Maybe", ".is_some()", is_some)

\* is_none() that returns is_some() without the negation.
Maybe_is_none_same == Query("Maybe", ".is_none()", is_some)

\* bool is_none() const { return !this->is_some(); }
Maybe_is_none == Query("Maybe", ".is_none()", is_none)

\* T& get_unchecked() & { return this->value; }
Maybe_get_unchecked(func) == Ref(func, value[1])

\* unwrap_unchecked() without the assignment to has_value.
Maybe_unwrap_unchecked_keeps == UNCHANGED has_value

\* T&& unwrap_unchecked() { this->has_value = false; return std::move(this->value); }
\* The state change; the T&& returned reads value[1].
Maybe_unwrap_unchecked == has_value' = FALSE

\* What a read of the storage gives: indeterminate when no T was constructed.
Stored == IF value = <<>> THEN Values ELSE {value[1]}

\* get() calling unwrap_unchecked() where it should call get_unchecked().
Maybe_get_consuming ==
    /\ cls = "Maybe"
    /\ IF ~has_value
       THEN /\ ret' = Throw(".get()", OnNoneValue)
            /\ UNCHANGED has_value
       ELSE /\ Maybe_unwrap_unchecked
            /\ ret' = Ref(".get()", value[1])
    /\ NoExtract
    /\ UNCHANGED <<cls, is_error, has_data, value, error, mem, v0, ctor, dtors>>
    /\ UNCHANGED tvars

\* get() without the has_value check.
Maybe_get_nocheck ==
    /\ cls = "Maybe"
    /\ \E v \in Stored : ret' = Ref(".get()", v)
    /\ NoExtract
    /\ UNCHANGED <<cls, has_value, is_error, has_data, value, error, mem, v0, ctor, dtors>>
    /\ UNCHANGED tvars

\* get() that returns T by value, move-constructed from the storage.
Maybe_get_taking ==
    /\ cls = "Maybe"
    /\ IF ~has_value
       THEN /\ ret' = Throw(".get()", OnNoneValue)
            /\ UNCHANGED value
       ELSE /\ ret' = Ref(".get()", value[1])
            /\ \E w \in MovedFrom(value[1]) : value' = <<w>>
    /\ NoExtract
    /\ UNCHANGED <<cls, has_value, is_error, has_data, error, mem, v0, ctor, dtors>>
    /\ UNCHANGED tvars

\* T& get() &
Maybe_get ==
    /\ cls = "Maybe"
    /\ ret' = IF ~has_value THEN Throw(".get()", OnNoneValue)
              ELSE Maybe_get_unchecked(".get()")
    /\ NoExtract
    /\ UNCHANGED <<cls, has_value, is_error, has_data, value, error, mem, v0, ctor, dtors>>
    /\ UNCHANGED tvars

\* unwrap() without the has_value check.
Maybe_unwrap_nocheck ==
    /\ cls = "Maybe"
    /\ Maybe_unwrap_unchecked
    /\ \E v \in Stored : ret' = Ref(".unwrap()", v)
    /\ Extract(".unwrap()")
    /\ UNCHANGED <<cls, is_error, has_data, value, error, mem, v0, ctor, dtors>>
    /\ UNCHANGED tvars

\* T&& unwrap()
Maybe_unwrap ==
    /\ cls = "Maybe"
    /\ IF ~has_value
       THEN /\ ret' = Throw(".unwrap()", OnNoneValue)
            /\ NoExtract
            /\ UNCHANGED has_value
       ELSE /\ Maybe_unwrap_unchecked
            /\ ret' = Ref(".unwrap()", value[1])
            /\ Extract(".unwrap()")
    /\ UNCHANGED <<cls, is_error, has_data, value, error, mem, v0, ctor, dtors>>
    /\ UNCHANGED tvars

\* map() that runs func on the storage before it looks at has_value.
Maybe_map_eager ==
    /\ cls = "Maybe"
    /\ \E func \in Transforms : \E v \in Stored :
        IF has_value
        THEN /\ Maybe_unwrap_unchecked
             /\ \E w \in MovedFrom(v) : value' = <<w>>
             /\ ret' = MaybeOf(".map()", TRUE, <<func[v]>>, <<>>, func, <<v>>)
             /\ Extract(".map()")
        ELSE /\ ret' = MaybeOf(".map()", FALSE, <<>>, <<>>, func, <<v>>)
             /\ NoExtract
             /\ UNCHANGED <<has_value, value>>
    /\ UNCHANGED <<cls, is_error, has_data, error, mem, v0, ctor, dtors>>
    /\ UNCHANGED tvars

\* map() that hands func a copy (get_unchecked()) and leaves the value in place.
Maybe_map_copy ==
    /\ cls = "Maybe"
    /\ \E func \in Transforms :
        IF has_value
        THEN /\ ret' = MaybeOf(".map()", TRUE, <<func[value[1]]>>, <<>>,
                               func, <<value[1]>>)
             /\ Extract(".map()")
        ELSE /\ ret' = MaybeOf(".map()", FALSE, <<>>, <<>>, func, <<>>)
             /\ NoExtract
    /\ UNCHANGED <<cls, has_value, is_error, has_data, value, error, mem, v0, ctor, dtors>>
    /\ UNCHANGED tvars

\* Maybe<U> map(std::function<U(T)> func)
Maybe_map ==
    /\ cls = "Maybe"
    /\ \E func \in Transforms :
        IF has_value
        THEN /\ Maybe_unwrap_unchecked
             /\ \E w \in MovedFrom(value[1]) : value' = <<w>>
             /\ ret' = MaybeOf(".map()", TRUE, <<func[value[1]]>>, <<>>,
                               func, <<value[1]>>)
             /\ Extract(".map()")
        ELSE /\ ret' = MaybeOf(".map()", FALSE, <<>>, <<>>, func, <<>>)
             /\ NoExtract
             /\ UNCHANGED <<has_value, value>>
    /\ UNCHANGED <<cls, is_error, has_data, error, mem, v0, ctor, dtors>>
    /\ UNCHANGED tvars

\* ~Maybe() that runs value.~T() without looking at has_value.
Maybe_dtor_always ==
    /\ cls = "Maybe"
    /\ cls' = "NoObject"
    /\ dtors' = dtors + 1
    /\ has_value' = FALSE
    /\ value' = <<>>
    /\ ret' = Void("~Maybe()")
    /\ NoExtract
    /\ UNCHANGED <<is_error, has_data, error, mem, v0, ctor>>
    /\ UNCHANGED tvars

\* ~Maybe() { if (this->has_value) this->value.~T(); }
Maybe_dtor ==
    /\ cls = "Maybe"
    /\ cls' = "NoObject"
    /\ dtors' = IF has_value THEN dtors + 1 ELSE dtors
    /\ has_value' = FALSE
    /\ value' = <<>>
    /\ ret' = Void("~Maybe()")
    /\ NoExtract
    /\ UNCHANGED <<is_error, has_data, error, mem, v0, ctor>>
    /\ UNCHANGED tvars

----------------------------------------------------------------------------
(* Maybe<T&>: value is a T*, the address of an object the Maybe does not own *)

\* Maybe(Some<T&> some) : has_value(true), value(some.val)
MaybeRef_Some ==
    \E a \in Addrs :
        /\ Constructed("MaybeRef", <<a>>, "Maybe(Some)")
        /\ has_value' = TRUE
        /\ value' = <<a>>
        /\ UNCHANGED <<is_error, has_data, error>>

\* Maybe(None) : has_value(false); the pointer is left uninitialized
MaybeRef_None ==
    /\ Constructed("MaybeRef", <<>>, "Maybe(None)")
    /\ has_value' = FALSE
    /\ value' = <<>>
    /\ UNCHANGED <<is_error, has_data, error>>

\* Maybe() : has_value(false); the pointer is left uninitialized
MaybeRef_default ==
    /\ Constructed("MaybeRef", <<>>, "Maybe()")
    /\ has_value' = FALSE
    /\ value' = <<>>
    /\ UNCHANGED <<is_error, has_data, error>>

\* bool is_some() const { return this->has_value; }
MaybeRef_is_some == Query("MaybeRef", ".is_some()", is_some)

\* bool is_none() const { return !this->is_some(); }
MaybeRef_is_none == Query("MaybeRef", ".is_none()", is_none)

\* T& unwrap_unchecked() { this->has_value = false; return *this->value; }
\* The state change; the T& returned is the object at address value[1].
MaybeRef_unwrap_unchecked == has_value' = FALSE

\* unwrap() of Maybe<T&> that returns a copy of the object, not the object.
MaybeRef_unwrap_copy ==
    /\ cls = "MaybeRef"
    /\ IF ~has_value
       THEN /\ ret' = Throw(".unwrap()", OnNoneValue)
            /\ NoExtract
            /\ UNCHANGED has_value
       ELSE /\ MaybeRef_unwrap_unchecked
            /\ ret' = Ref(".unwrap()", mem[value[1]])
            /\ Extract(".unwrap()")
    /\ UNCHANGED <<cls, is_error, has_data, value, error, mem, v0, ctor, dtors>>
    /\ UNCHANGED tvars

\* T& unwrap()
MaybeRef_unwrap ==
    /\ cls = "MaybeRef"
    /\ IF ~has_value
       THEN /\ ret' = Throw(".unwrap()", OnNoneValue)
            /\ NoExtract
            /\ UNCHANGED has_value
       ELSE /\ MaybeRef_unwrap_unchecked
            /\ ret' = RefTo(".unwrap()", value[1], mem[value[1]])
            /\ Extract(".unwrap()")
    /\ UNCHANGED <<cls, is_error, has_data, value, error, mem, v0, ctor, dtors>>
    /\ UNCHANGED tvars

\* map() that hands func the referent (*this->value) without unwrap_unchecked().
MaybeRef_map_keeps ==
    /\ cls = "MaybeRef"
    /\ \E func \in Transforms :
        IF has_value
        THEN /\ ret' = MaybeOf(".map()", TRUE, <<func[mem[value[1]]]>>, <<>>,
                               func, <<value[1]>>)
             /\ Extract(".map()")
        ELSE /\ ret' = MaybeOf(".map()", FALSE, <<>>, <<>>, func, <<>>)
             /\ NoExtract
    /\ UNCHANGED <<cls, has_value, is_error, has_data, value, error, mem, v0, ctor, dtors>>
    /\ UNCHANGED tvars

\* Maybe<U> map(std::function<U(T &)> func): func is called with the T& that
\* unwrap_unchecked() returns; calls records the address it is called with,
\* val the U it makes of the object there.
MaybeRef_map ==
    /\ cls = "MaybeRef"
    /\ \E func \in Transforms :
        IF has_value
        THEN /\ MaybeRef_unwrap_unchecked
             /\ ret' = MaybeOf(".map()", TRUE, <<func[mem[value[1]]]>>, <<>>,
                               func, <<value[1]>>)
             /\ Extract(".map()")
        ELSE /\ ret' = MaybeOf(".map()", FALSE, <<>>, <<>>, func, <<>>)
             /\ NoExtract
             /\ UNCHANGED has_value
    /\ UNCHANGED <<cls, is_error, has_data, value, error, mem, v0, ctor, dtors>>
    /\ UNCHANGED tvars

\* The implicit destructor of Maybe<T&>: a bool and a pointer, nothing to release.
MaybeRef_dtor ==
    /\ cls = "MaybeRef"
    /\ cls' = "NoObject"
    /\ has_value' = FALSE
    /\ value' = <<>>
    /\ ret' = Void("~Maybe()")
    /\ NoExtract
    /\ UNCHANGED <<is_error, has_data, error, mem, v0, ctor, dtors>>
    /\ UNCHANGED tvars

----------------------------------------------------------------------------
(* Result<T, E> *)

is_err == is_error
is_ok == ~is_err

\* Result(Ok<T> ok) : is_error(false), has_data(true), value(ok.take())
Result_Ok ==
    \E v \in Values :
        /\ Constructed("Result", <<v>>, "Result(Ok)")
        /\ is_error' = FALSE
        /\ has_data' = TRUE
        /\ value' = <<v>>
        /\ error' = <<>>
        /\ UNCHANGED has_value

\* Result(Err<E>) with the initializer is_error(false) of the Ok constructor.
Result_Err_as_ok ==
    \E e \in Errors :
        /\ Constructed("Result", <<e>>, "Result(Err)")
        /\ is_error' = FALSE
        /\ has_data' = TRUE
        /\ error' = <<e>>
        /\ value' = <<>>
        /\ UNCHANGED has_value

\* Result(Err<E> err) : is_error(true), has_data(true), error(err.take())
Result_Err ==
    \E e \in Errors :
        /\ Constructed("Result", <<e>>, "Result(Err)")
        /\ is_error' = TRUE
        /\ has_data' = TRUE
        /\ error' = <<e>>
        /\ value' = <<>>
        /\ UNCHANGED has_value

\* bool is_err() const { return this->is_error; }
Result_is_err == Query("Result", ".is_err()", is_err)

\* bool is_ok() const { return !this->is_err(); }
Result_is_ok == Query("Result", ".is_ok()", is_ok)

\* CHECK_IF_VALID_T with the two checks in the other order.
CHECK_IF_VALID_T_moved_first(func) ==
    IF ~has_data THEN Throw(func, OnMovedValueT)
    ELSE IF is_error THEN Throw(func, OnErrorValue)
    ELSE NoThrow(func)

\* #define CHECK_IF_VALID_T(func)
CHECK_IF_VALID_T(func) ==
    IF is_error THEN Throw(func, OnErrorValue)
    ELSE IF ~has_data THEN Throw(func, OnMovedValueT)
    ELSE NoThrow(func)

\* CHECK_IF_VALID_E with the two checks in the other order.
CHECK_IF_VALID_E_moved_first(func) ==
    IF ~has_data THEN Throw(func, OnMovedValueE)
    ELSE IF ~is_error THEN Throw(func, OnOkValue)
    ELSE NoThrow(func)

\* #define CHECK_IF_VALID_E(func)
CHECK_IF_VALID_E(func) ==
    IF ~is_error THEN Throw(func, OnOkValue)
    ELSE IF ~has_data THEN Throw(func, OnMovedValueE)
    ELSE NoThrow(func)

\* unwrap_unchecked() without the assignment to has_data.
Result_unwrap_unchecked_keeps == UNCHANGED has_data

\* T&& unwrap_unchecked() { this->has_data = false; return std::move(this->value); }
\* The state change; the T&& returned reads value[1].
Result_unwrap_unchecked == has_data' = FALSE

\* E&& unwrap_err_unchecked() { this->has_data = false; return std::move(this->error); }
\* The state change; the E&& returned reads error[1].
Result_unwrap_err_unchecked == has_data' = FALSE

\* get() calling unwrap_unchecked() where it should call get_unchecked().
Result_get_consuming ==
    /\ cls = "Result"
    /\ LET chk == CHECK_IF_VALID_T(".get()") IN
        IF chk.tag = "throw"
        THEN /\ ret' = chk
             /\ UNCHANGED has_data
        ELSE /\ Result_unwrap_unchecked
             /\ ret' = Ref(".get()", value[1])
    /\ NoExtract
    /\ UNCHANGED <<cls, has_value, is_error, value, error, mem, v0, ctor, dtors>>
    /\ UNCHANGED tvars

\* T& get() &
Result_get ==
    /\ cls = "Result"
    /\ LET chk == CHECK_IF_VALID_T(".get()") IN
        ret' = IF chk.tag = "throw" THEN chk ELSE Ref(".get()", value[1])
    /\ NoExtract
    /\ UNCHANGED <<cls, has_value, is_error, has_data, value, error, mem, v0, ctor, dtors>>
    /\ UNCHANGED tvars

\* E& get_err() &
Result_get_err ==
    /\ cls = "Result"
    /\ LET chk == CHECK_IF_VALID_E(".get_err()") IN
        ret' = IF chk.tag = "throw" THEN chk ELSE Ref(".get_err()", error[1])
    /\ NoExtract
    /\ UNCHANGED <<cls, has_value, is_error, has_data, value, error, mem, v0, ctor, dtors>>
    /\ UNCHANGED tvars

\* unwrap() that tests has_data before the channel.
Result_unwrap_moved_first ==
    /\ cls = "Result"
    /\ LET chk == CHECK_IF_VALID_T_moved_first(".unwrap()") IN
        IF chk.tag = "throw"
        THEN /\ ret' = chk
             /\ NoExtract
             /\ UNCHANGED has_data
        ELSE /\ Result_unwrap_unchecked
             /\ ret' = Ref(".unwrap()", value[1])
             /\ Extract(".unwrap()")
    /\ UNCHANGED <<cls, has_value, is_error, value, error, mem, v0, ctor, dtors>>
    /\ UNCHANGED tvars

\* T&& unwrap()
Result_unwrap ==
    /\ cls = "Result"
    /\ LET chk == CHECK_IF_VALID_T(".unwrap()") IN
        IF chk.tag = "throw"
        THEN /\ ret' = chk
             /\ NoExtract
             /\ UNCHANGED has_data
        ELSE /\ Result_unwrap_unchecked
             /\ ret' = Ref(".unwrap()", value[1])
             /\ Extract(".unwrap()")
    /\ UNCHANGED <<cls, has_value, is_error, value, error, mem, v0, ctor, dtors>>
    /\ UNCHANGED tvars

\* unwrap_err() whose unchecked part clears is_error where it should clear has_data.
Result_unwrap_err_flips ==
    /\ cls = "Result"
    /\ LET chk == CHECK_IF_VALID_E(".unwrap_err()") IN
        IF chk.tag = "throw"
        THEN /\ ret' = chk
             /\ NoExtract
             /\ UNCHANGED is_error
        ELSE /\ is_error' = FALSE
             /\ ret' = Ref(".unwrap_err()", error[1])
             /\ Extract(".unwrap_err()")
    /\ UNCHANGED <<cls, has_value, has_data, value, error, mem, v0, ctor, dtors>>
    /\ UNCHANGED tvars

\* unwrap_err() that clears has_data before it runs the checks.
Result_unwrap_err_clears_first ==
    /\ cls = "Result"
    /\ has_data' = FALSE
    /\ LET chk == CHECK_IF_VALID_E(".unwrap_err()") IN
        IF chk.tag = "throw"
        THEN /\ ret' = chk
             /\ NoExtract
        ELSE /\ ret' = Ref(".unwrap_err()", error[1])
             /\ Extract(".unwrap_err()")
    /\ UNCHANGED <<cls, has_value, is_error, value, error, mem, v0, ctor, dtors>>
    /\ UNCHANGED tvars

\* E&& unwrap_err()
Result_unwrap_err ==
    /\ cls = "Result"
    /\ LET chk == CHECK_IF_VALID_E(".unwrap_err()") IN
        IF chk.tag = "throw"
        THEN /\ ret' = chk
             /\ NoExtract
             /\ UNCHANGED has_data
        ELSE /\ Result_unwrap_err_unchecked
             /\ ret' = Ref(".unwrap_err()", error[1])
             /\ Extract(".unwrap_err()")
    /\ UNCHANGED <<cls, has_value, is_error, value, error, mem, v0, ctor, dtors>>
    /\ UNCHANGED tvars

\* The condition of ok() without the has_data test.
Result_ok_guard_channel_only == ~is_error

\* if (!this->is_error && this->has_data) in ok()
Result_ok_guard == ~is_error /\ has_data

\* ok() that runs unwrap_unchecked() before it tests the channel.
Result_ok_clears_first ==
    /\ cls = "Result"
    /\ Result_unwrap_unchecked
    /\ IF Result_ok_guard
       THEN /\ \E w \in MovedFrom(value[1]) : value' = <<w>>
            /\ ret' = MaybeOf(".ok()", TRUE, <<value[1]>>, <<>>, <<>>, <<>>)
            /\ Extract(".ok()")
       ELSE /\ ret' = MaybeOf(".ok()", FALSE, <<>>, <<>>, <<>>, <<>>)
            /\ NoExtract
            /\ UNCHANGED value
    /\ UNCHANGED <<cls, has_value, is_error, error, mem, v0, ctor, dtors>>
    /\ UNCHANGED tvars

\* Maybe<T> ok(): Some<T>(this->unwrap_unchecked()) moves the T out of the storage.
Result_ok ==
    /\ cls = "Result"
    /\ IF Result_ok_guard
       THEN /\ Result_unwrap_unchecked
            /\ \E w \in MovedFrom(value[1]) : value' = <<w>>
            /\ ret' = MaybeOf(".ok()", TRUE, <<value[1]>>, <<>>, <<>>, <<>>)
            /\ Extract(".ok()")
       ELSE /\ ret' = MaybeOf(".ok()", FALSE, <<>>, <<>>, <<>>, <<>>)
            /\ NoExtract
            /\ UNCHANGED <<has_data, value>>
    /\ UNCHANGED <<cls, has_value, is_error, error, mem, v0, ctor, dtors>>
    /\ UNCHANGED tvars

\* The condition of err() without the has_data test.
Result_err_guard_channel_only == is_error

\* if (this->is_error && this->has_data) in err()
Result_err_guard == is_error /\ has_data

\* Maybe<E> err(): Some<E>(this->unwrap_err_unchecked()) moves the E out of the storage.
Result_err ==
    /\ cls = "Result"
    /\ IF Result_err_guard
       THEN /\ Result_unwrap_err_unchecked
            /\ \E w \in MovedFromErr(error[1]) : error' = <<w>>
            /\ ret' = MaybeOf(".err()", TRUE, <<error[1]>>, <<>>, <<>>, <<>>)
            /\ Extract(".err()")
       ELSE /\ ret' = MaybeOf(".err()", FALSE, <<>>, <<>>, <<>>, <<>>)
            /\ NoExtract
            /\ UNCHANGED <<has_data, error>>
    /\ UNCHANGED <<cls, has_value, is_error, value, mem, v0, ctor, dtors>>
    /\ UNCHANGED tvars

\* ~Result(): error.~E() if is_error && has_data, else value.~T() if has_data
Result_dtor ==
    /\ cls = "Result"
    /\ cls' = "NoObject"
    /\ dtors' = IF has_data THEN dtors + 1 ELSE dtors
    /\ is_error' = FALSE
    /\ has_data' = FALSE
    /\ value' = <<>>
    /\ error' = <<>>
    /\ ret' = Void("~Result()")
    /\ NoExtract
    /\ UNCHANGED <<has_value, mem, v0, ctor>>
    /\ UNCHANGED tvars

----------------------------------------------------------------------------
(* Result<T&, E>: value is a T*, the address of an object the Result does  *)
(* not own; the error is owned by value.                                    *)

\* Result(Ok<T&> ok) : is_error(false), has_data(true), value(&ok.take())
ResultRef_Ok ==
    \E a \in Addrs :
        /\ Constructed("ResultRef", <<a>>, "Result(Ok)")
        /\ is_error' = FALSE
        /\ has_data' = TRUE
        /\ value' = <<a>>
        /\ error' = <<>>
        /\ UNCHANGED has_value

\* Result(Err<E> err) : is_error(true), has_data(true), error(err.take())
ResultRef_Err ==
    \E e \in Errors :
        /\ Constructed("ResultRef", <<e>>, "Result(Err)")
        /\ is_error' = TRUE
        /\ has_data' = TRUE
        /\ error' = <<e>>
        /\ value' = <<>>
        /\ UNCHANGED has_value

\* bool is_err() const { return this->is_error; }
ResultRef_is_err == Query("ResultRef", ".is_err()", is_err)

\* bool is_ok() const { return !this->is_err(); }
ResultRef_is_ok == Query("ResultRef", ".is_ok()", is_ok)

\* unwrap_unchecked() of Result<T&, E> without the assignment to has_data.
ResultRef_unwrap_unchecked_keeps == UNCHANGED has_data

\* T& unwrap_unchecked() { this->has_data = false; return *this->value; }
\* The state change; the T& returned is the object at address value[1].
ResultRef_unwrap_unchecked == has_data' = FALSE

\* E&& unwrap_err_unchecked() { this->has_data = false; return std::move(this->error); }
ResultRef_unwrap_err_unchecked == has_data' = FALSE

\* E& get_err() &
ResultRef_get_err ==
    /\ cls = "ResultRef"
    /\ LET chk == CHECK_IF_VALID_E(".get_err()") IN
        ret' = IF chk.tag = "throw" THEN chk ELSE Ref(".get_err()", error[1])
    /\ NoExtract
    /\ UNCHANGED <<cls, has_value, is_error, has_data, value, error, mem, v0, ctor, dtors>>
    /\ UNCHANGED tvars

\* T& unwrap()
ResultRef_unwrap ==
    /\ cls = "ResultRef"
    /\ LET chk == CHECK_IF_VALID_T(".unwrap()") IN
        IF chk.tag = "throw"
        THEN /\ ret' = chk
             /\ NoExtract
             /\ UNCHANGED has_data
        ELSE /\ ResultRef_unwrap_unchecked
             /\ ret' = RefTo(".unwrap()", value[1], mem[value[1]])
             /\ Extract(".unwrap()")
    /\ UNCHANGED <<cls, has_value, is_error, value, error, mem, v0, ctor, dtors>>
    /\ UNCHANGED tvars

\* E&& unwrap_err()
ResultRef_unwrap_err ==
    /\ cls = "ResultRef"
    /\ LET chk == CHECK_IF_VALID_E(".unwrap_err()") IN
        IF chk.tag = "throw"
        THEN /\ ret' = chk
             /\ NoExtract
             /\ UNCHANGED has_data
        ELSE /\ ResultRef_unwrap_err_unchecked
             /\ ret' = Ref(".unwrap_err()", error[1])
             /\ Extract(".unwrap_err()")
    /\ UNCHANGED <<cls, has_value, is_error, value, error, mem, v0, ctor, dtors>>
    /\ UNCHANGED tvars

\* Maybe<T&> ok(): Some<T &>(this->unwrap_unchecked()); the Maybe<T&> returned
\* holds the pointer (at) and reads the object it points to (val).
ResultRef_ok ==
    /\ cls = "ResultRef"
    /\ IF ~is_error /\ has_data
       THEN /\ ResultRef_unwrap_unchecked
            /\ ret' = MaybeOf(".ok()", TRUE, <<mem[value[1]]>>, <<value[1]>>,
                              <<>>, <<>>)
            /\ Extract(".ok()")
       ELSE /\ ret' = MaybeOf(".ok()", FALSE, <<>>, <<>>, <<>>, <<>>)
            /\ NoExtract
            /\ UNCHANGED has_data
    /\ UNCHANGED <<cls, has_value, is_error, value, error, mem, v0, ctor, dtors>>
    /\ UNCHANGED tvars

\* Maybe<E> err(): Some<E>(this->unwrap_err_unchecked()) moves the E out of the storage.
ResultRef_err ==
    /\ cls = "ResultRef"
    /\ IF is_error /\ has_data
       THEN /\ ResultRef_unwrap_err_unchecked
            /\ \E w \in MovedFromErr(error[1]) : error' = <<w>>
            /\ ret' = MaybeOf(".err()", TRUE, <<error[1]>>, <<>>, <<>>, <<>>)
            /\ Extract(".err()")
       ELSE /\ ret' = MaybeOf(".err()", FALSE, <<>>, <<>>, <<>>, <<>>)
            /\ NoExtract
            /\ UNCHANGED <<has_data, error>>
    /\ UNCHANGED <<cls, has_value, is_error, value, mem, v0, ctor, dtors>>
    /\ UNCHANGED tvars

\* ~Result() of Result<T&, E> written like that of Result<T, E>, with the
\* else branch that runs a destructor on the value.
ResultRef_dtor_owning ==
    /\ cls = "ResultRef"
    /\ cls' = "NoObject"
    /\ dtors' = IF has_data THEN dtors + 1 ELSE dtors
    /\ is_error' = FALSE
    /\ has_data' = FALSE
    /\ value' = <<>>
    /\ error' = <<>>
    /\ ret' = Void("~Result()")
    /\ NoExtract
    /\ UNCHANGED <<has_value, mem, v0, ctor>>
    /\ UNCHANGED tvars

\* ~Result() { if (this->is_error && this->has_data) this->error.~E(); }
ResultRef_dtor ==
    /\ cls = "ResultRef"
    /\ cls' = "NoObject"
    /\ dtors' = IF is_error /\ has_data THEN dtors + 1 ELSE dtors
    /\ is_error' = FALSE
    /\ has_data' = FALSE
    /\ value' = <<>>
    /\ error' = <<>>
    /\ ret' = Void("~Result()")
    /\ NoExtract
    /\ UNCHANGED <<has_value, mem, v0, ctor>>
    /\ UNCHANGED tvars

\* auto ok = result.ok(); ... ok.unwrap(): the client keeps the Maybe<T&> that
\* ok() returned and goes on with it; the Result is left behind (~Result()).
\* The Maybe<T&> was built by Maybe(Some<T&>) or Maybe(None) inside ok().
ResultRef_ok_kept ==
    /\ cls = "ResultRef"
    /\ ret.op = ".ok()"
    /\ ret.tag = "maybe"
    /\ cls' = "MaybeRef"
    /\ has_value' = ret.some
    /\ value' = ret.at
    /\ is_error' = FALSE
    /\ has_data' = FALSE
    /\ error' = <<>>
    /\ v0' = ret.at
    /\ ctor' = IF ret.some THEN "Maybe(Some)" ELSE "Maybe(None)"
    /\ extracted' = 0
    /\ took' = {}
    /\ dtors' = 0
    /\ ret' = Void("auto ok = result.ok()")
    /\ UNCHANGED mem
    /\ UNCHANGED tvars

----------------------------------------------------------------------------
(* Result<void, E>: success carries no payload *)

\* Result(Ok<void>) : is_error(false), has_data(true)
ResultVoid_Ok ==
    /\ Constructed("ResultVoid", <<>>, "Result(Ok)")
    /\ is_error' = FALSE
    /\ has_data' = TRUE
    /\ value' = <<>>
    /\ error' = <<>>
    /\ UNCHANGED has_value

\* Result(Err<E> err) : is_error(true), has_data(true), error(err.take())
ResultVoid_Err ==
    \E e \in Errors :
        /\ Constructed("ResultVoid", <<e>>, "Result(Err)")
        /\ is_error' = TRUE
        /\ has_data' = TRUE
        /\ error' = <<e>>
        /\ value' = <<>>
        /\ UNCHANGED has_value

\* bool is_err() const { return this->is_error; }
ResultVoid_is_err == Query("ResultVoid", ".is_err()", is_err)

\* bool is_ok() const { return !this->is_err(); }
ResultVoid_is_ok == Query("ResultVoid", ".is_ok()", is_ok)

\* E&& unwrap_err_unchecked() { this->has_data = false; return std::move(this->error); }
ResultVoid_unwrap_err_unchecked == has_data' = FALSE

\* E& get_err() &
ResultVoid_get_err ==
    /\ cls = "ResultVoid"
    /\ LET chk == CHECK_IF_VALID_E(".get_err()") IN
        ret' = IF chk.tag = "throw" THEN chk ELSE Ref(".get_err()", error[1])
    /\ NoExtract
    /\ UNCHANGED <<cls, has_value, is_error, has_data, value, error, mem, v0, ctor, dtors>>
    /\ UNCHANGED tvars

\* E&& unwrap_err()
ResultVoid_unwrap_err ==
    /\ cls = "ResultVoid"
    /\ LET chk == CHECK_IF_VALID_E(".unwrap_err()") IN
        IF chk.tag = "throw"
        THEN /\ ret' = chk
             /\ NoExtract
             /\ UNCHANGED has_data
        ELSE /\ ResultVoid_unwrap_err_unchecked
             /\ ret' = Ref(".unwrap_err()", error[1])
             /\ Extract(".unwrap_err()")
    /\ UNCHANGED <<cls, has_value, is_error, value, error, mem, v0, ctor, dtors>>
    /\ UNCHANGED tvars

\* err() of Result<void, E> that tests has_data only, not the channel; on a
\* success Result it reads the error member, which was never constructed.
ResultVoid_err_any_channel ==
    /\ cls = "ResultVoid"
    /\ IF has_data
       THEN /\ ResultVoid_unwrap_err_unchecked
            /\ \E e \in (IF error = <<>> THEN Errors ELSE {error[1]}) :
                 ret' = MaybeOf(".err()", TRUE, <<e>>, <<>>, <<>>, <<>>)
            /\ \E w \in Errors : error' = <<w>>
            /\ Extract(".err()")
       ELSE /\ ret' = MaybeOf(".err()", FALSE, <<>>, <<>>, <<>>, <<>>)
            /\ NoExtract
            /\ UNCHANGED <<has_data, error>>
    /\ UNCHANGED <<cls, has_value, is_error, value, mem, v0, ctor, dtors>>
    /\ UNCHANGED tvars

\* Maybe<E> err(): Some(this->unwrap_err_unchecked()) moves the E out of the storage.
ResultVoid_err ==
    /\ cls = "ResultVoid"
    /\ IF is_error /\ has_data
       THEN /\ ResultVoid_unwrap_err_unchecked
            /\ \E w \in MovedFromErr(error[1]) : error' = <<w>>
            /\ ret' = MaybeOf(".err()", TRUE, <<error[1]>>, <<>>, <<>>, <<>>)
            /\ Extract(".err()")
       ELSE /\ ret' = MaybeOf(".err()", FALSE, <<>>, <<>>, <<>>, <<>>)
            /\ NoExtract
            /\ UNCHANGED <<has_data, error>>
    /\ UNCHANGED <<cls, has_value, is_error, value, mem, v0, ctor, dtors>>
    /\ UNCHANGED tvars

\* ~Result() { if (this->is_error && this->has_data) this->error.~E(); }
ResultVoid_dtor ==
    /\ cls = "ResultVoid"
    /\ cls' = "NoObject"
    /\ dtors' = IF is_error /\ has_data THEN dtors + 1 ELSE dtors
    /\ is_error' = FALSE
    /\ has_data' = FALSE
    /\ value' = <<>>
    /\ error' = <<>>
    /\ ret' = Void("~Result()")
    /\ NoExtract
    /\ UNCHANGED <<has_value, mem, v0, ctor>>
    /\ UNCHANGED tvars

----------------------------------------------------------------------------
(* The v1.0.0 revision of Maybe<T> and Result<T, E>.  Maybe holds            *)
(* `T val; bool has_Val;`, Result holds `union { T val; E err; }; bool       *)
(* is_Error;`.  value stands for val, error for err, has_value for has_Val,  *)
(* is_error for is_Error; there is no has_data.  The accessors are Some(),   *)
(* CloneSome(), Unwrap(), Ok(), CloneOk(), Err(), CloneErr(), UnwrapErr().   *)

\* what() of the std::exception thrown, without the "Called <func> " prefix.
V1_OnNoneValue == "on a None value."
V1_OnErrorValue == "on an Error value."
V1_OnOkValue == "on an Ok value."
V1_OnErrorValueUnwrap == "on a Error value."
V1_OnOkValueUnwrap == "on a Ok value."

\* The error kinds of the specification, by the message thrown.
V1_Kind(r) ==
    IF r.tag # "throw" THEN "NoError"
    ELSE IF r.what = V1_OnNoneValue THEN "EmptyAccess"
    ELSE IF r.what \in {V1_OnErrorValue, V1_OnOkValue,
                        V1_OnErrorValueUnwrap, V1_OnOkValueUnwrap} THEN "WrongChannel"
    ELSE "Other"

\* A T or an E returned by value: a new object copy-constructed from v.
Copy(func, v) == Outcome(func, "copy", "", <<v>>, <<>>, FALSE, <<>>, <<>>)

\* Maybe(Some<T> val) : val(std::move(val).get()), has_Val(true)
V1_Maybe_Some ==
    \E v \in Values :
        /\ Constructed("V1.Maybe", <<v>>, "Maybe(Some)")
        /\ has_value' = TRUE
        /\ value' = <<v>>
        /\ UNCHANGED <<is_error, has_data, error>>

\* Maybe(None) : has_Val(false); val is default-initialized, whatever that gives
V1_Maybe_None ==
    \E d \in Values :
        /\ Constructed("V1.Maybe", <<>>, "Maybe(None)")
        /\ has_value' = FALSE
        /\ value' = <<d>>
        /\ UNCHANGED <<is_error, has_data, error>>

\* T &Some() &
V1_Maybe_Some_ref ==
    /\ cls = "V1.Maybe"
    /\ ret' = IF ~has_value THEN Throw("Some()", V1_OnNoneValue)
              ELSE Ref("Some()", value[1])
    /\ NoExtract
    /\ UNCHANGED <<cls, has_value, is_error, has_data, value, error, mem, v0, ctor, dtors>>
    /\ UNCHANGED tvars

\* CloneSome() without the has_Value() check.
V1_Maybe_CloneSome_nocheck ==
    /\ cls = "V1.Maybe"
    /\ ret' = Copy("CloneSome()", value[1])
    /\ NoExtract
    /\ UNCHANGED <<cls, has_value, is_error, has_data, value, error, mem, v0, ctor, dtors>>
    /\ UNCHANGED tvars

\* T CloneSome() const &
V1_Maybe_CloneSome ==
    /\ cls = "V1.Maybe"
    /\ ret' = IF ~has_value THEN Throw("CloneSome()", V1_OnNoneValue)
              ELSE Copy("CloneSome()", value[1])
    /\ NoExtract
    /\ UNCHANGED <<cls, has_value, is_error, has_data, value, error, mem, v0, ctor, dtors>>
    /\ UNCHANGED tvars

\* Unwrap() that clears has_Val, as unwrap_unchecked() of the final revision does.
V1_Maybe_Unwrap_clearing ==
    /\ cls = "V1.Maybe"
    /\ IF ~has_value
       THEN /\ ret' = Throw("Unwrap()", V1_OnNoneValue)
            /\ NoExtract
            /\ UNCHANGED has_value
       ELSE /\ has_value' = FALSE
            /\ ret' = Ref("Unwrap()", value[1])
            /\ Extract("Unwrap()")
    /\ UNCHANGED <<cls, is_error, has_data, value, error, mem, v0, ctor, dtors>>
    /\ UNCHANGED tvars

\* T &&Unwrap(): return std::move(*this).some_unchecked(); has_Val is not assigned
V1_Maybe_Unwrap ==
    /\ cls = "V1.Maybe"
    /\ IF ~has_value
       THEN /\ ret' = Throw("Unwrap()", V1_OnNoneValue)
            /\ NoExtract
       ELSE /\ ret' = Ref("Unwrap()", value[1])
            /\ Extract("Unwrap()")
    /\ UNCHANGED <<cls, has_value, is_error, has_data, value, error, mem, v0, ctor, dtors>>
    /\ UNCHANGED tvars

\* The implicit destructor of Maybe: val is a member, so its destructor runs.
V1_Maybe_dtor ==
    /\ cls = "V1.Maybe"
    /\ cls' = "NoObject"
    /\ dtors' = dtors + 1
    /\ has_value' = FALSE
    /\ value' = <<>>
    /\ ret' = Void("~Maybe()")
    /\ NoExtract
    /\ UNCHANGED <<is_error, has_data, error, mem, v0, ctor>>
    /\ UNCHANGED tvars

\* Result(Ok<T> value) : val(std::move(value).get()), is_Error(false)
V1_Result_Ok ==
    \E v \in Values :
        /\ Constructed("V1.Result", <<v>>, "Result(Ok)")
        /\ is_error' = FALSE
        /\ value' = <<v>>
        /\ error' = <<>>
        /\ UNCHANGED <<has_value, has_data>>

\* Result(Err<E> error) : err(std::move(error).get()), is_Error(true)
V1_Result_Err ==
    \E e \in Errors :
        /\ Constructed("V1.Result", <<e>>, "Result(Err)")
        /\ is_error' = TRUE
        /\ error' = <<e>>
        /\ value' = <<>>
        /\ UNCHANGED <<has_value, has_data>>

\* A const or reference accessor of the v1.0.0 Result: it assigns nothing.
V1_Result_access(r) ==
    /\ cls = "V1.Result"
    /\ ret' = r
    /\ NoExtract
    /\ UNCHANGED <<cls, has_value, is_error, has_data, value, error, mem, v0, ctor, dtors>>
    /\ UNCHANGED tvars

\* T &Ok() &
V1_Result_Ok_ref ==
    V1_Result_access(IF is_error THEN Throw("Ok()", V1_OnErrorValue)
                     ELSE Ref("Ok()", value[1]))

\* CloneOk() that returns std::move(val): the T returned is move-constructed.
V1_Result_CloneOk_moving ==
    /\ cls = "V1.Result"
    /\ IF is_error
       THEN /\ ret' = Throw("CloneOk()", V1_OnErrorValue)
            /\ UNCHANGED value
       ELSE /\ ret' = Copy("CloneOk()", value[1])
            /\ \E w \in MovedFrom(value[1]) : value' = <<w>>
    /\ NoExtract
    /\ UNCHANGED <<cls, has_value, is_error, has_data, error, mem, v0, ctor, dtors>>
    /\ UNCHANGED tvars

\* T CloneOk() const &
V1_Result_CloneOk ==
    V1_Result_access(IF is_error THEN Throw("CloneOk()", V1_OnErrorValue)
                     ELSE Copy("CloneOk()", value[1]))

\* T &&Unwrap(): return std::move(*this).ok_unchecked(); no flag is assigned
V1_Result_Unwrap ==
    /\ cls = "V1.Result"
    /\ IF is_error
       THEN /\ ret' = Throw("Unwrap()", V1_OnErrorValueUnwrap)
            /\ NoExtract
       ELSE /\ ret' = Ref("Unwrap()", value[1])
            /\ Extract("Unwrap()")
    /\ UNCHANGED <<cls, has_value, is_error, has_data, value, error, mem, v0, ctor, dtors>>
    /\ UNCHANGED tvars

\* E &Err() &
V1_Result_Err_ref ==
    V1_Result_access(IF ~is_error THEN Throw("Err()", V1_OnOkValue)
                     ELSE Ref("Err()", error[1]))

\* E CloneErr() const &
V1_Result_CloneErr ==
    V1_Result_access(IF ~is_error THEN Throw("CloneErr()", V1_OnOkValue)
                     ELSE Copy("CloneErr()", error[1]))

\* E &&UnwrapErr(): return std::move(*this).err_unchecked(); no flag is assigned
V1_Result_UnwrapErr ==
    /\ cls = "V1.Result"
    /\ IF ~is_error
       THEN /\ ret' = Throw("UnwrapErr()", V1_OnOkValueUnwrap)
            /\ NoExtract
       ELSE /\ ret' = Ref("UnwrapErr()", error[1])
            /\ Extract("UnwrapErr()")
    /\ UNCHANGED <<cls, has_value, is_error, has_data, value, error, mem, v0, ctor, dtors>>
    /\ UNCHANGED tvars

\* The destructor of Result: the class declares none and the payload lives in
\* an anonymous union, so no payload destructor runs.
V1_Result_dtor ==
    /\ cls = "V1.Result"
    /\ cls' = "NoObject"
    /\ is_error' = FALSE
    /\ value' = <<>>
    /\ error' = <<>>
    /\ ret' = Void("~Result()")
    /\ NoExtract
    /\ UNCHANGED <<has_value, has_data, mem, v0, ctor, dtors>>
    /\ UNCHANGED tvars

----------------------------------------------------------------------------

Init ==
    /\ cls = "NoObject"
    /\ has_value = FALSE
    /\ is_error = FALSE
    /\ has_data = FALSE
    /\ value = <<>>
    /\ error = <<>>
    /\ mem \in [Addrs -> Values]
    /\ ret = Void("")
    /\ v0 = <<>>
    /\ extracted = 0
    /\ took = {}
    /\ ctor = ""
    /\ dtors = 0
    /\ pc = [t \in Threads |-> "start"]
    /\ out = [t \in Threads |-> Void("")]
    /\ mutex = 0
    /\ sync = FALSE

Next ==
    \/ Maybe_Some
    \/ Maybe_None
    \/ Maybe_default
    \/ Maybe_is_some
    \/ Maybe_is_none
    \/ Maybe_get
    \/ Maybe_unwrap
    \/ Maybe_map
    \/ Maybe_dtor
    \/ MaybeRef_Some
    \/ MaybeRef_None
    \/ MaybeRef_default
    \/ MaybeRef_is_some
    \/ MaybeRef_is_none
    \/ MaybeRef_unwrap
    \/ MaybeRef_map
    \/ MaybeRef_dtor
    \/ Result_Ok
    \/ Result_Err
    \/ Result_is_err
    \/ Result_is_ok
    \/ Result_get
    \/ Result_get_err
    \/ Result_unwrap
    \/ Result_unwrap_err
    \/ Result_ok
    \/ Result_err
    \/ Result_dtor
    \/ ResultRef_Ok
    \/ ResultRef_Err
    \/ ResultRef_is_err
    \/ ResultRef_is_ok
    \/ ResultRef_get_err
    \/ ResultRef_unwrap
    \/ ResultRef_unwrap_err
    \/ ResultRef_ok
    \/ ResultRef_err
    \/ ResultRef_dtor
    \/ ResultRef_ok_kept
    \/ ResultVoid_Ok
    \/ ResultVoid_Err
    \/ ResultVoid_is_err
    \/ ResultVoid_is_ok
    \/ ResultVoid_get_err
    \/ ResultVoid_unwrap_err
    \/ ResultVoid_err
    \/ ResultVoid_dtor

Spec == Init /\ [][Next]_vars

\* A client of the v1.0.0 revision.
V1_Next ==
    \/ V1_Maybe_Some
    \/ V1_Maybe_None
    \/ V1_Maybe_Some_ref
    \/ V1_Maybe_CloneSome
    \/ V1_Maybe_Unwrap
    \/ V1_Maybe_dtor
    \/ V1_Result_Ok
    \/ V1_Result_Err
    \/ V1_Result_Ok_ref
    \/ V1_Result_CloneOk
    \/ V1_Result_Unwrap
    \/ V1_Result_Err_ref
    \/ V1_Result_CloneErr
    \/ V1_Result_UnwrapErr
    \/ V1_Result_dtor

V1_Spec == Init /\ [][V1_Next]_vars

\* A client of either revision: the final one or v1.0.0.
Revisions_Next == Next \/ V1_Next

Revisions_Spec == Init /\ [][Revisions_Next]_vars

----------------------------------------------------------------------------
(* Threads that share one Result<T, E> and each call unwrap() on it.  The    *)
(* container has no synchronisation of its own: a call is the check          *)
(* (CHECK_IF_VALID_T reads is_error and has_data), then unwrap_unchecked()   *)
(* (writes has_data), and steps of other threads can come in between; a read *)
(* of has_data that races with the write sees the value before or after it.  *)
(* Callers that synchronise hold one mutex around the whole call.            *)

\* What the container's members keep while a thread only moves on.
Members == <<cls, has_value, is_error, has_data, value, error, mem, ret, v0, ctor, dtors>>

\* Thread t begins r.unwrap(); synchronising callers take the mutex first.
Thread_call(t) ==
    /\ cls = "Result"
    /\ pc[t] = "start"
    /\ sync => mutex = 0
    /\ mutex' = IF sync THEN t ELSE mutex
    /\ pc' = [pc EXCEPT ![t] = "check"]
    /\ NoExtract
    /\ UNCHANGED <<Members, out, sync>>

\* CHECK_IF_VALID_T(".unwrap()") in unwrap(), run by thread t.
Thread_CHECK_IF_VALID_T(t) ==
    /\ cls = "Result"
    /\ pc[t] = "check"
    /\ LET chk == CHECK_IF_VALID_T(".unwrap()") IN
        IF chk.tag = "throw"
        THEN /\ out' = [out EXCEPT ![t] = chk]
             /\ pc' = [pc EXCEPT ![t] = "return"]
        ELSE /\ pc' = [pc EXCEPT ![t] = "unchecked"]
             /\ UNCHANGED out
    /\ NoExtract
    /\ UNCHANGED <<Members, mutex, sync>>

\* unwrap_unchecked() run by thread t, without the assignment to has_data.
Thread_unwrap_unchecked_keeps(t) ==
    /\ cls = "Result"
    /\ pc[t] = "unchecked"
    /\ out' = [out EXCEPT ![t] = Ref(".unwrap()", value[1])]
    /\ pc' = [pc EXCEPT ![t] = "return"]
    /\ Extract(".unwrap()")
    /\ UNCHANGED <<Members, mutex, sync>>

\* return this->unwrap_unchecked(): has_data = false; return std::move(value),
\* run by thread t.
Thread_unwrap_unchecked(t) ==
    /\ cls = "Result"
    /\ pc[t] = "unchecked"
    /\ Result_unwrap_unchecked
    /\ out' = [out EXCEPT ![t] = Ref(".unwrap()", value[1])]
    /\ pc' = [pc EXCEPT ![t] = "return"]
    /\ Extract(".unwrap()")
    /\ UNCHANGED <<cls, has_value, is_error, value, error, mem, ret, v0, ctor, dtors>>
    /\ UNCHANGED <<mutex, sync>>

\* The call of thread t is over (returned or threw); synchronising callers
\* release the mutex.
Thread_return(t) ==
    /\ cls = "Result"
    /\ pc[t] = "return"
    /\ mutex' = IF sync THEN 0 ELSE mutex
    /\ pc' = [pc EXCEPT ![t] = "done"]
    /\ NoExtract
    /\ UNCHANGED <<Members, out, sync>>

\* Callers that synchronise, and callers that do not.
Race_Init ==
    /\ cls = "NoObject"
    /\ has_value = FALSE
    /\ is_error = FALSE
    /\ has_data = FALSE
    /\ value = <<>>
    /\ error = <<>>
    /\ mem \in [Addrs -> Values]
    /\ ret = Void("")
    /\ v0 = <<>>
    /\ extracted = 0
    /\ took = {}
    /\ ctor = ""
    /\ dtors = 0
    /\ pc = [t \in Threads |-> "start"]
    /\ out = [t \in Threads |-> Void("")]
    /\ mutex = 0
    /\ sync \in BOOLEAN

\* One Result is constructed; then every thread calls unwrap() on it once.
Race_Next ==
    \/ Result_Ok
    \/ Result_Err
    \/ \E t \in Threads : Thread_call(t)
    \/ \E t \in Threads : Thread_CHECK_IF_VALID_T(t)
    \/ \E t \in Threads : Thread_unwrap_unchecked(t)
    \/ \E t \in Threads : Thread_return(t)

Race_Spec == Race_Init /\ [][Race_Next]_vars

----------------------------------------------------------------------------
(* Properties *)

\* The step is a call of member function op on the live container of class c.
Call(c, op) == cls = c /\ cls' = c /\ ret'.op = op

\* C1: a Result built from Ok(v) reports is_ok(); unwrap() on it, with nothing
\* taken out before, returns v; every unwrap() after a successful unwrap()
\* throws the "on a moved value" error (Consumed) and returns nothing.
C1_UnwrapOnce ==
    /\ [](cls = "Result" /\ ctor = "Result(Ok)" => is_ok)
    /\ [][(Call("Result", ".unwrap()") /\ ctor = "Result(Ok)" /\ extracted = 0)
            => ret' = Ref(".unwrap()", v0[1])]_vars
    /\ [][(Call("Result", ".unwrap()") /\ ctor = "Result(Ok)" /\ ".unwrap()" \in took)
            => (Kind(ret') = "Consumed" /\ ret'.val = <<>>)]_vars

\* A second unwrap() on a Result built from Ok has just thrown Consumed.
C1_Witness ==
    /\ cls = "Result" /\ ctor = "Result(Ok)" /\ is_ok
    /\ ".unwrap()" \in took
    /\ ret.op = ".unwrap()" /\ Kind(ret) = "Consumed"

\* C2: on a success Result unwrap_err() and get_err() throw the "on an ok
\* value" error (WrongChannel), before and after the value was taken out;
\* the kind is never Consumed.
C2_ErrChannelOfOk ==
    [][((Call("Result", ".unwrap_err()") \/ Call("Result", ".get_err()")) /\ is_ok)
         => (ret' = Throw(ret'.op, OnOkValue)
             /\ Kind(ret') = "WrongChannel"
             /\ UNCHANGED <<is_error, has_data>>)]_vars

\* unwrap_err() on a success Result whose value was already taken threw WrongChannel.
C2_Witness ==
    /\ cls = "Result" /\ is_ok /\ ~has_data /\ extracted > 0
    /\ ret.op = ".unwrap_err()" /\ Kind(ret) = "WrongChannel"

\* C3: a Result built from Err(e) reports is_err(); unwrap_err() on it, with
\* nothing taken out before, returns e; unwrap() and get() throw the "on an
\* error value" error (WrongChannel) whether or not the error was taken out.
C3_ErrResult ==
    /\ [](cls = "Result" /\ ctor = "Result(Err)" => is_err)
    /\ [][(Call("Result", ".unwrap_err()") /\ ctor = "Result(Err)" /\ extracted = 0)
            => ret' = Ref(".unwrap_err()", v0[1])]_vars
    /\ [][((Call("Result", ".unwrap()") \/ Call("Result", ".get()"))
            /\ ctor = "Result(Err)")
            => (ret' = Throw(ret'.op, OnErrorValue)
                /\ Kind(ret') = "WrongChannel")]_vars

\* get() on a failure Result whose error was already taken threw WrongChannel.
C3_Witness ==
    /\ cls = "Result" /\ ctor = "Result(Err)" /\ is_err
    /\ ".unwrap_err()" \in took /\ ~has_data
    /\ ret.op = ".get()" /\ Kind(ret) = "WrongChannel"

\* The owning and the reference variant of Maybe.
MaybeClasses == {"Maybe", "MaybeRef"}

\* C4: a Maybe built from Some(v) reports is_some() and not is_none(), and
\* get() returns a reference reading v, on every call made while no consuming
\* operation has run.
C4_GetOfSome ==
    (cls = "Maybe" /\ ctor = "Maybe(Some)" /\ extracted = 0)
        => /\ is_some
           /\ ~is_none
           /\ value = v0
           /\ (ret.op = ".get()" => ret = Ref(".get()", v0[1]))

\* get() has returned the value of a Maybe built from Some, nothing consumed.
C4_Witness ==
    /\ cls = "Maybe" /\ ctor = "Maybe(Some)" /\ extracted = 0
    /\ ret.op = ".get()" /\ ret.tag = "value" /\ ret.val = v0

\* C5: once unwrap() has succeeded on a present Maybe (owning or reference
\* variant), is_some() is false and is_none() is true in every later state.
C5_UnwrapClearsFlag ==
    (cls \in MaybeClasses /\ ".unwrap()" \in took) => (~is_some /\ is_none)

\* A call made after the successful unwrap() of a Maybe<T&>.
C5_Witness ==
    /\ cls = "MaybeRef" /\ ctor = "Maybe(Some)" /\ ".unwrap()" \in took
    /\ ret.op = ".map()" /\ ~is_some

\* C6: a Maybe built from None or default-constructed reports is_none() and
\* not is_some(), and get() and unwrap() on it throw the "on a none value"
\* error (EmptyAccess) and return nothing.
C6_NoneThrows ==
    (cls \in MaybeClasses /\ ctor \in {"Maybe(None)", "Maybe()"})
        => /\ is_none
           /\ ~is_some
           /\ (ret.op \in {".get()", ".unwrap()"}
                 => (ret = Throw(ret.op, OnNoneValue)
                     /\ Kind(ret) = "EmptyAccess"
                     /\ ret.val = <<>>))

\* unwrap() has thrown on a default-constructed Maybe.
C6_Witness ==
    /\ cls = "Maybe" /\ ctor = "Maybe()" /\ is_none
    /\ ret.op = ".unwrap()" /\ Kind(ret) = "EmptyAccess"

\* C7: after one successful unwrap() every later unwrap() and get() on the
\* same Maybe throws; none of them returns the storage the value was moved
\* out of.
C7_FlagAuthoritative ==
    [][(cls \in MaybeClasses /\ cls' = cls /\ ".unwrap()" \in took
          /\ ret'.op \in {".get()", ".unwrap()"})
         => (ret'.tag = "throw" /\ ret'.val = <<>> /\ Kind(ret') = "EmptyAccess"
             /\ UNCHANGED <<has_value, value>>)]_vars

\* get() has thrown on a Maybe whose value was unwrapped; the storage still holds it.
C7_Witness ==
    /\ cls = "Maybe" /\ ".unwrap()" \in took /\ value # <<>>
    /\ ret.op = ".get()" /\ ret.tag = "throw"

\* C8: Maybe::map(f) on an absent Maybe returns an absent Maybe<U> and does
\* not invoke f; on a present Maybe holding v it invokes f once, with v, and
\* returns a present Maybe<U> holding f(v).
C8_Map ==
    [][Call("Maybe", ".map()")
         => /\ ret'.tag = "maybe"
            /\ ret'.fn \in Transforms
            /\ ~has_value => (~ret'.some /\ ret'.val = <<>> /\ ret'.calls = <<>>)
            /\ has_value => (/\ ret'.calls = <<value[1]>>
                             /\ ret'.some
                             /\ ret'.val = <<ret'.fn[value[1]]>>)]_vars

\* map() has returned a present Maybe<U> from a present Maybe.
C8_Witness ==
    /\ cls = "Maybe" /\ ctor = "Maybe(Some)" /\ took = {".map()"}
    /\ ret.op = ".map()" /\ ret.some /\ ret.calls = v0
    /\ ret.val = <<ret.fn[v0[1]]>>

\* C9: map consumes the source: once map(f) has run on a present Maybe the
\* source reports is_some() = false, a later get() or unwrap() throws
\* EmptyAccess and a later map(g) returns absent without invoking g; map on
\* an absent Maybe leaves the source as it was.
C9_MapConsumes ==
    /\ []((cls \in MaybeClasses /\ ".map()" \in took) => ~is_some)
    /\ [][(cls \in MaybeClasses /\ cls' = cls /\ ".map()" \in took)
            => /\ ret'.op \in {".get()", ".unwrap()"}
                    => ret' = Throw(ret'.op, OnNoneValue)
               /\ ret'.op = ".map()"
                    => (~ret'.some /\ ret'.val = <<>> /\ ret'.calls = <<>>)]_vars
    /\ [][(cls \in MaybeClasses /\ cls' = cls /\ ret'.op = ".map()" /\ ~has_value)
            => UNCHANGED <<has_value, value>>]_vars

\* A second map() on a Maybe that a first map() consumed has returned absent.
C9_Witness ==
    /\ cls = "Maybe" /\ ".map()" \in took /\ ~is_some
    /\ ret.op = ".map()" /\ ~ret.some /\ ret.calls = <<>>

\* C10: Result::ok() on a success Result whose value is still there returns
\* a present Maybe holding the value and marks the Result consumed, so that a
\* later unwrap() or get() throws Consumed and a later ok() returns absent;
\* on a failure Result and on a consumed success Result it returns absent.
C10_Ok ==
    /\ [][(Call("Result", ".ok()") /\ ~is_error /\ has_data)
            => (/\ ret' = MaybeOf(".ok()", TRUE, v0, <<>>, <<>>, <<>>)
                /\ ~has_data'
                /\ ".ok()" \in took')]_vars
    /\ [][(Call("Result", ".ok()") /\ (is_error \/ ~has_data))
            => ret' = MaybeOf(".ok()", FALSE, <<>>, <<>>, <<>>, <<>>)]_vars
    /\ [][(cls = "Result" /\ cls' = cls /\ ".ok()" \in took)
            => /\ ret'.op \in {".get()", ".unwrap()"} => Kind(ret') = "Consumed"
               /\ ret'.op = ".ok()" => (~ret'.some /\ ret'.val = <<>>)]_vars

\* unwrap() has thrown Consumed on a Result that ok() emptied.
C10_Witness ==
    /\ cls = "Result" /\ ctor = "Result(Ok)" /\ took = {".ok()"} /\ ~has_data
    /\ ret.op = ".unwrap()" /\ Kind(ret) = "Consumed"

\* The general Result and its two specializations.
ResultClasses == {"Result", "ResultRef", "ResultVoid"}

\* The step is a call of member function op on a live container of a class in C.
CallIn(C, op) == cls \in C /\ cls' = cls /\ ret'.op = op

\* C11: Result::err() on a failure Result whose error is still there returns
\* a present Maybe holding the error and marks the Result consumed; on a
\* success Result and on a consumed failure Result it returns absent.
C11_Err ==
    /\ [][(Call("Result", ".err()") /\ is_error /\ has_data)
            => (/\ ret' = MaybeOf(".err()", TRUE, v0, <<>>, <<>>, <<>>)
                /\ ~has_data'
                /\ ".err()" \in took')]_vars
    /\ [][(Call("Result", ".err()") /\ (~is_error \/ ~has_data))
            => ret' = MaybeOf(".err()", FALSE, <<>>, <<>>, <<>>, <<>>)]_vars

\* A second err() on a failure Result that a first err() emptied returned absent.
C11_Witness ==
    /\ cls = "Result" /\ ctor = "Result(Err)" /\ took = {".err()"} /\ ~has_data
    /\ ret.op = ".err()" /\ ret.tag = "maybe" /\ ~ret.some

\* C12: ok() and err() never throw, in any state of any Result, and when
\* they return absent they leave is_error, has_data and the payload as they
\* were (ok() on a fresh failure Result does not consume the error).
C12_OkErrNoThrow ==
    [][(CallIn(ResultClasses, ".ok()") \/ CallIn(ResultClasses, ".err()"))
         => /\ ret'.tag = "maybe"
            /\ Kind(ret') = "NoError"
            /\ ~ret'.some => UNCHANGED <<is_error, has_data, value, error>>]_vars

\* ok() on a fresh failure Result returned absent and the error is still there.
C12_Witness ==
    /\ cls = "Result" /\ ctor = "Result(Err)" /\ extracted = 0
    /\ is_error /\ has_data /\ error = v0
    /\ ret.op = ".ok()" /\ ret.tag = "maybe" /\ ~ret.some

\* C13: get() throws WrongChannel on a failure Result and Consumed on a
\* success Result whose value was taken; on a fresh success Result it returns
\* the value and consumes nothing, so it can be repeated and unwrap() still
\* finds the value.  get_err() is the same for the error channel.
C13_Get ==
    /\ [][Call("Result", ".get()")
            => /\ is_error => ret' = Throw(".get()", OnErrorValue)
               /\ (~is_error /\ ~has_data) => ret' = Throw(".get()", OnMovedValueT)
               /\ (~is_error /\ has_data) => ret' = Ref(".get()", v0[1])
               /\ UNCHANGED <<is_error, has_data, value, error, extracted>>]_vars
    /\ [][CallIn(ResultClasses, ".get_err()")
            => /\ ~is_error => ret' = Throw(".get_err()", OnOkValue)
               /\ (is_error /\ ~has_data) => ret' = Throw(".get_err()", OnMovedValueE)
               /\ (is_error /\ has_data) => ret' = Ref(".get_err()", v0[1])
               /\ UNCHANGED <<is_error, has_data, value, error, extracted>>]_vars
    /\ []((cls \in ResultClasses /\ extracted = 0) => has_data)

\* get() returned the value of a fresh success Result, which still has it.
C13_Witness ==
    /\ cls = "Result" /\ ctor = "Result(Ok)" /\ extracted = 0 /\ has_data
    /\ ret = Ref(".get()", v0[1])

\* The kinds a call can end with.
Kinds == {"NoError", "EmptyAccess", "WrongChannel", "Consumed", "Other"}

\* get_err() of whichever Result class is live.
AnyResult_get_err == Result_get_err \/ ResultRef_get_err \/ ResultVoid_get_err

\* C14: in every state of a Result, unwrap() ends with the kind get() would
\* end with in that state (no error, WrongChannel or Consumed), and
\* unwrap_err() with the kind get_err() would end with; when unwrap() or
\* unwrap_err() succeeds, has_data is false afterwards.
C14_UnwrapLikeGet ==
    /\ [][Call("Result", ".unwrap()")
            => /\ \A k \in Kinds :
                     (Kind(ret') = k) <=> ENABLED (Result_get /\ Kind(ret') = k)
               /\ ret'.tag # "throw" => (ret'.tag = "value" /\ ~has_data')]_vars
    /\ [][CallIn(ResultClasses, ".unwrap_err()")
            => /\ \A k \in Kinds :
                     (Kind(ret') = k) <=> ENABLED (AnyResult_get_err /\ Kind(ret') = k)
               /\ ret'.tag # "throw" => (ret'.tag = "value" /\ ~has_data')]_vars

\* unwrap() threw Consumed in a state where get() throws Consumed too.
C14_Witness ==
    /\ cls = "Result" /\ ~is_error /\ ~has_data
    /\ ret.op = ".unwrap()" /\ Kind(ret) = "Consumed"
    /\ ENABLED (Result_get /\ Kind(ret') = "Consumed")

\* C15: round trip: unwrap() on Maybe(Some(v)) returns v, unwrap() on
\* Result(Ok(v)) returns v and unwrap_err() on Result(Err(e)) returns e; the
\* stored payload does not change between construction and extraction.
C15_RoundTrip ==
    /\ [][(Call("Maybe", ".unwrap()") /\ ctor = "Maybe(Some)" /\ extracted = 0)
            => ret' = Ref(".unwrap()", v0[1])]_vars
    /\ [][(Call("Result", ".unwrap()") /\ ctor = "Result(Ok)" /\ extracted = 0)
            => ret' = Ref(".unwrap()", v0[1])]_vars
    /\ [][(CallIn(ResultClasses, ".unwrap_err()") /\ ctor = "Result(Err)"
             /\ extracted = 0)
            => ret' = Ref(".unwrap_err()", v0[1])]_vars
    /\ []((cls \in {"Maybe", "Result"} /\ ctor \in {"Maybe(Some)", "Result(Ok)"}
             /\ extracted = 0) => value = v0)
    /\ []((cls \in ResultClasses /\ ctor = "Result(Err)" /\ extracted = 0)
            => error = v0)

\* unwrap() has given back the value a Maybe was built from.
C15_Witness ==
    /\ cls = "Maybe" /\ ctor = "Maybe(Some)" /\ took = {".unwrap()"}
    /\ ret = Ref(".unwrap()", v0[1])

\* C16: unwrap() on a Maybe<T&> bound to object x returns a reference to x
\* itself (its address), not a copy; so do unwrap() on a Result<T&,E> built
\* from Ok<T&>(x) and unwrap() on the Maybe<T&> its ok() returns.
C16_SameObject ==
    /\ [][(Call("MaybeRef", ".unwrap()") /\ has_value)
            => (ret' = RefTo(".unwrap()", v0[1], mem[v0[1]]) /\ UNCHANGED mem)]_vars
    /\ [][(Call("ResultRef", ".unwrap()") /\ ~is_error /\ has_data)
            => (ret' = RefTo(".unwrap()", v0[1], mem[v0[1]]) /\ UNCHANGED mem)]_vars
    /\ [][(Call("ResultRef", ".ok()") /\ ~is_error /\ has_data)
            => (ret'.some /\ ret'.at = v0 /\ UNCHANGED mem)]_vars
    /\ [][(cls = "ResultRef" /\ cls' = "MaybeRef" /\ ret.some)
            => (has_value' /\ value' = v0 /\ v0' = v0 /\ UNCHANGED mem)]_vars

\* unwrap() on a Maybe<T&> returned the address it was bound to.
C16_Witness ==
    /\ cls = "MaybeRef" /\ ctor = "Maybe(Some)" /\ took = {".unwrap()"}
    /\ ret.op = ".unwrap()" /\ ret.tag = "value"
    /\ ret.at = v0 /\ v0 # <<>> /\ ret.val = <<mem[v0[1]]>>

\* C17: the channel of a Result is fixed at construction: no call on it,
\* successful or failing, changes is_err() / is_ok().
C17_ChannelFixed ==
    /\ [][(cls \in ResultClasses /\ cls' = cls) => is_error' = is_error]_vars
    /\ [](cls \in ResultClasses
            => (is_err = (ctor = "Result(Err)") /\ is_ok = (ctor = "Result(Ok)")))

\* A failure Result is still a failure after its error was taken and ok() was called.
C17_Witness ==
    /\ cls = "Result" /\ ctor = "Result(Err)" /\ is_err /\ ~is_ok
    /\ extracted = 1 /\ ~has_data /\ ret.op = ".ok()"

\* C18: has_data is true after construction, only ever goes from true to
\* false, and each successful extraction takes it from true to false; so at
\* most one extraction succeeds on one Result.
C18_ConsumedMonotone ==
    /\ []((cls \in ResultClasses /\ ret.op = ctor) => has_data)
    /\ [][(cls \in ResultClasses /\ cls' = cls /\ ~has_data) => ~has_data']_vars
    /\ [][(cls \in ResultClasses /\ cls' = cls /\ took' # took)
            => (has_data /\ ~has_data')]_vars
    /\ [][(cls \in ResultClasses /\ cls' = cls /\ extracted' # extracted)
            => (extracted = 0 /\ has_data /\ ~has_data')]_vars
    /\ [](cls \in ResultClasses => extracted <= 1)

\* An extraction attempted after the one that succeeded has thrown Consumed.
C18_Witness ==
    /\ cls \in ResultClasses /\ extracted = 1 /\ ~has_data
    /\ ret.tag = "throw" /\ Kind(ret) = "Consumed"

\* C19: a call on a Maybe or a Result that throws (EmptyAccess, WrongChannel
\* or Consumed) leaves the flags, the payload and the objects referred to as
\* they were.
C19_FailureKeepsState ==
    [][(cls # "NoObject" /\ cls' = cls /\ ret'.tag = "throw")
         => (/\ UNCHANGED <<has_value, is_error, has_data, value, error, mem>>
             /\ UNCHANGED <<extracted, took>>
             /\ Kind(ret') \in {"EmptyAccess", "WrongChannel", "Consumed"})]_vars

\* unwrap() threw on a fresh failure Result, whose error is still in place.
C19_Witness ==
    /\ cls = "Result" /\ ctor = "Result(Err)" /\ is_error /\ has_data
    /\ error = v0 /\ extracted = 0
    /\ ret.op = ".unwrap()" /\ ret.tag = "throw"

\* The member functions that ask for the value, and those that ask for the error.
ValueOps == {".get()", ".unwrap()"}
ErrorOps == {".get_err()", ".unwrap_err()"}

\* C20: a Result extraction throws WrongChannel exactly when the channel
\* asked for is not the Result's channel, and Consumed exactly when it is the
\* Result's channel and the payload was taken; a failing call reports one of
\* the two, never both and never neither.
C20_TwoKinds ==
    [][(cls \in ResultClasses /\ cls' = cls /\ ret'.op \in ValueOps \cup ErrorOps)
         => LET wantsError == ret'.op \in ErrorOps IN
            /\ (Kind(ret') = "WrongChannel") <=> (wantsError # is_error)
            /\ (Kind(ret') = "Consumed") <=> (wantsError = is_error /\ ~has_data)
            /\ (ret'.tag = "throw") <=> (Kind(ret') \in {"WrongChannel", "Consumed"})
            /\ (ret'.tag # "throw") <=> (ret'.tag = "value")]_vars

\* unwrap() on a failure Result whose error was taken threw WrongChannel, not Consumed.
C20_Witness ==
    /\ cls = "Result" /\ is_error /\ ~has_data
    /\ ret.op = ".unwrap()" /\ ret.tag = "throw" /\ ret.what = OnErrorValue

\* The queries, on whichever class of Maybe or Result is live.
QueryOps == {".is_some()", ".is_none()", ".is_ok()", ".is_err()"}
AnyMaybe_is_some == Maybe_is_some \/ MaybeRef_is_some
AnyMaybe_is_none == Maybe_is_none \/ MaybeRef_is_none
AnyResult_is_err == Result_is_err \/ ResultRef_is_err \/ ResultVoid_is_err
AnyResult_is_ok == Result_is_ok \/ ResultRef_is_ok \/ ResultVoid_is_ok

\* C21: is_some / is_none on a Maybe and is_ok / is_err on a Result can be
\* called in every state of the container and return a bool (they never
\* throw); the call changes nothing of the container or of the objects
\* referred to; and in every state is_none() returns the negation of what
\* is_some() returns, is_ok() the negation of what is_err() returns.
C21_Queries ==
    /\ [][ret'.op \in QueryOps
            => (/\ ret'.tag = "bool"
                /\ UNCHANGED <<cls, has_value, is_error, has_data, value, error,
                               mem, extracted, took, dtors>>)]_vars
    /\ [](cls \in MaybeClasses
            => \A b \in BOOLEAN :
                 /\ ENABLED (AnyMaybe_is_some /\ ret'.some = b) <=> (b = has_value)
                 /\ ENABLED (AnyMaybe_is_none /\ ret'.some = b)
                      <=> ENABLED (AnyMaybe_is_some /\ ret'.some = ~b))
    /\ [](cls \in ResultClasses
            => \A b \in BOOLEAN :
                 /\ ENABLED (AnyResult_is_err /\ ret'.some = b) <=> (b = is_error)
                 /\ ENABLED (AnyResult_is_ok /\ ret'.some = b)
                      <=> ENABLED (AnyResult_is_err /\ ret'.some = ~b))

\* is_none() answered true on a Maybe built from Some whose value was taken.
C21_Witness ==
    /\ cls = "Maybe" /\ ctor = "Maybe(Some)" /\ extracted = 1
    /\ ret = Bool(".is_none()", TRUE)

\* C22: get() on a present Maybe leaves has_value true and the stored value
\* as it was, and counts as no extraction; unwrap() called after a successful
\* get() (hence after any number of them) returns the value the Maybe was
\* constructed from.
C22_GetKeeps ==
    /\ [][(Call("Maybe", ".get()") /\ has_value)
            => (/\ ret' = Ref(".get()", value[1])
                /\ has_value' /\ value' = value
                /\ UNCHANGED <<extracted, took>>)]_vars
    /\ [][(Call("Maybe", ".unwrap()") /\ ret.op = ".get()" /\ ret.tag = "value")
            => ret' = Ref(".unwrap()", v0[1])]_vars

\* get() has returned the stored value and unwrap() can still return it.
C22_Witness ==
    /\ cls = "Maybe" /\ has_value /\ value = v0
    /\ ret = Ref(".get()", v0[1])
    /\ ENABLED (Maybe_unwrap /\ ret' = Ref(".unwrap()", v0[1]))

\* The clone accessors of the v1.0.0 Result.
CloneOps == {"CloneOk()", "CloneErr()"}

\* C23 (v1.0.0): CloneOk() / CloneErr() leave the flag and both payloads of
\* the Result as they were and count as no extraction; they return a copy of
\* the payload or throw; in every state CloneOk() fails exactly as Ok() does
\* and CloneErr() exactly as Err() does; a clone made right after a
\* successful clone by the same accessor returns the same value.
C23_Clone ==
    /\ [][(cls = "V1.Result" /\ cls' = cls /\ ret'.op \in CloneOps)
            => (/\ UNCHANGED <<is_error, has_data, value, error, extracted, took>>
                /\ ret'.tag \in {"copy", "throw"}
                /\ ret'.tag = "copy"
                     => ret'.val = IF ret'.op = "CloneOk()" THEN value ELSE error)]_vars
    /\ [](cls = "V1.Result"
            => \A k \in Kinds :
                 /\ ENABLED (V1_Result_CloneOk /\ V1_Kind(ret') = k)
                      <=> ENABLED (V1_Result_Ok_ref /\ V1_Kind(ret') = k)
                 /\ ENABLED (V1_Result_CloneErr /\ V1_Kind(ret') = k)
                      <=> ENABLED (V1_Result_Err_ref /\ V1_Kind(ret') = k))
    /\ [][(cls = "V1.Result" /\ cls' = cls /\ ret'.op \in CloneOps
            /\ ret.op = ret'.op /\ ret.tag = "copy")
            => ret' = ret]_vars

\* CloneOk() has returned a copy of the value, the value is in place and a
\* second CloneOk() returns the same.
C23_Witness ==
    /\ cls = "V1.Result" /\ ~is_error /\ value = v0
    /\ ret = Copy("CloneOk()", v0[1])
    /\ ENABLED (V1_Result_CloneOk /\ ret' = ret)

\* C24 (v1.0.0): CloneSome() on a present Maybe returns a copy of the
\* contained value and leaves the Maybe present with the same value; on an
\* absent Maybe it throws the "on a None value" error (EmptyAccess) and
\* returns nothing.
C24_CloneSome ==
    [][(cls = "V1.Maybe" /\ cls' = cls /\ ret'.op = "CloneSome()")
         => (/\ UNCHANGED <<has_value, value, extracted, took>>
             /\ has_value => ret' = Copy("CloneSome()", value[1])
             /\ ~has_value => (/\ ret' = Throw("CloneSome()", V1_OnNoneValue)
                               /\ V1_Kind(ret') = "EmptyAccess"))]_vars

\* CloneSome() has returned a copy of the value a present Maybe still holds.
C24_Witness ==
    /\ cls = "V1.Maybe" /\ has_value /\ value = v0
    /\ ret = Copy("CloneSome()", v0[1])

\* The live container was constructed with a payload it holds by value: the T
\* of a Maybe<T> or Result<T, E>, the E of any Result.
OwnsPayload ==
    \/ cls \in {"Maybe", "Result"} /\ v0 # <<>>
    \/ cls \in {"ResultRef", "ResultVoid"} /\ ctor = "Result(Err)"

\* C25: over the life of a container that holds a payload by value, the
\* container runs the destructor of the stored object exactly once: never
\* twice, and, when the container goes out of scope, not zero times, also
\* when unwrap() / unwrap_err() / ok() / err() / map() cleared the flag before.
C25_ReleasedOnce ==
    /\ [](dtors <= 1)
    /\ [][(OwnsPayload /\ cls' = "NoObject") => dtors' = 1]_vars

\* C26: in every state of a Maybe<T>, when is_some() is true exactly one T
\* object is in the storage, and when is_some() is false (built from None or
\* by default, or after unwrap() / map()) no T object is in the storage.
C26_MaybeStorage ==
    cls = "Maybe" => /\ is_some => Len(value) = 1
                     /\ is_none => value = <<>>

\* C27: in every state of a Result exactly the union member selected by
\* is_error has been constructed (none in a success Result<void, E>), never
\* both, and no call on the Result constructs a member that was not.
C27_OneMember ==
    /\ [](cls \in ResultClasses
            => /\ ~(value # <<>> /\ error # <<>>)
               /\ is_error => (error # <<>> /\ value = <<>>)
               /\ ~is_error => (error = <<>> /\ (value # <<>> <=> cls # "ResultVoid")))
    /\ [][(cls \in ResultClasses /\ cls' = cls)
            => (/\ value = <<>> => value' = <<>>
                /\ error = <<>> => error' = <<>>)]_vars

\* ok() was called on a failure Result whose error was taken: still only the
\* error member was ever constructed.
C27_Witness ==
    /\ cls = "Result" /\ is_error /\ ~has_data
    /\ Len(error) = 1 /\ value = <<>>
    /\ ret = MaybeOf(".ok()", FALSE, <<>>, <<>>, <<>>, <<>>)

\* The classes that hold a reference to an object outside the container.
RefClasses == {"MaybeRef", "ResultRef"}

\* C28: no step of a Maybe<T&> or Result<T&, E> (construction, unwrap, ok,
\* err, map, destruction) changes an object outside the container; what
\* unwrap() and ok() give back is the referent itself, at its address; the
\* only destructor such a container runs is ~Result() on the error of a
\* failure Result<T&, E> that was not taken, and that one it does run.
C28_NotOwned ==
    /\ [][(cls \in RefClasses \/ cls' \in RefClasses) => mem' = mem]_vars
    /\ [][(cls \in RefClasses /\ cls' = cls /\ ret'.op \in {".unwrap()", ".ok()"}
            /\ (ret'.tag = "value" \/ ret'.some))
            => (ret'.at = value /\ ret'.val = <<mem[value[1]]>>)]_vars
    /\ [][(cls \in RefClasses)
            => ((dtors' # dtors)
                  <=> (cls = "ResultRef" /\ ret'.op = "~Result()" /\ is_error /\ has_data))]_vars
    /\ [][(cls \in RefClasses /\ dtors' # dtors) => dtors' = dtors + 1]_vars

\* A success Result<T&, E> went out of scope with its reference not taken,
\* and no destructor ran.
C28_Witness ==
    /\ cls = "NoObject" /\ ret.op = "~Result()"
    /\ ctor = "Result(Ok)" /\ v0 # <<>> /\ extracted = 0
    /\ dtors = 0

\* C29: ok() on a fresh success Result<T&, E> returns a present Maybe<T&>
\* bound to the referent and leaves the Result consumed; from then on
\* unwrap() on the Result throws Consumed and err() returns an absent Maybe;
\* the Maybe<T&> the client kept gives the referent on its first unwrap() and
\* throws EmptyAccess on the next; and in no state do the Result and the
\* Maybe that ok() returned both hold the payload.
C29_OkHandsOver ==
    /\ [][(Call("ResultRef", ".ok()") /\ ctor = "Result(Ok)" /\ extracted = 0)
            => (/\ ret' = MaybeOf(".ok()", TRUE, <<mem[v0[1]]>>, v0, <<>>, <<>>)
                /\ ~has_data')]_vars
    /\ [][(Call("ResultRef", ".unwrap()") /\ ".ok()" \in took)
            => Kind(ret') = "Consumed"]_vars
    /\ [][(Call("ResultRef", ".err()") /\ ".ok()" \in took)
            => ret' = MaybeOf(".err()", FALSE, <<>>, <<>>, <<>>, <<>>)]_vars
    /\ [][(cls = "ResultRef" /\ ret.some /\ cls' = "MaybeRef")
            => (has_value' /\ value' = ret.at /\ ~has_data')]_vars
    /\ [][(Call("MaybeRef", ".unwrap()") /\ ret.op = "auto ok = result.ok()" /\ has_value)
            => (ret' = RefTo(".unwrap()", v0[1], mem[v0[1]]) /\ ~has_value')]_vars
    /\ [][(Call("MaybeRef", ".unwrap()") /\ ".unwrap()" \in took)
            => Kind(ret') = "EmptyAccess"]_vars
    /\ []((cls = "ResultRef" /\ ret.op = ".ok()" /\ ret.some) => ~has_data)

\* The client holds the present Maybe<T&> that ok() returned and can unwrap
\* it to the referent.
C29_Witness ==
    /\ cls = "MaybeRef" /\ ret.op = "auto ok = result.ok()"
    /\ has_value /\ value = v0 /\ ~has_data
    /\ ENABLED (MaybeRef_unwrap /\ ret' = RefTo(".unwrap()", v0[1], mem[v0[1]]))

\* C30: a success Result<void, E> holds no payload and is never marked
\* consumed; on it unwrap_err() and get_err() throw WrongChannel and err()
\* returns an absent Maybe, in every state.  A failure Result<void, E> gives
\* its error to the first of unwrap_err() / err(), after which unwrap_err()
\* and get_err() throw Consumed and err() returns an absent Maybe.
C30_VoidResult ==
    /\ []((cls = "ResultVoid" /\ is_ok)
            => (has_data /\ value = <<>> /\ error = <<>> /\ v0 = <<>> /\ extracted = 0))
    /\ [][(CallIn({"ResultVoid"}, ".unwrap_err()") \/ CallIn({"ResultVoid"}, ".get_err()"))
            => (/\ is_ok => ret' = Throw(ret'.op, OnOkValue)
                /\ (is_err /\ ~has_data) => ret' = Throw(ret'.op, OnMovedValueE)
                /\ (is_err /\ has_data) => ret' = Ref(ret'.op, v0[1]))]_vars
    /\ [][Call("ResultVoid", ".err()")
            => ret' = IF is_err /\ has_data
                      THEN MaybeOf(".err()", TRUE, v0, <<>>, <<>>, <<>>)
                      ELSE MaybeOf(".err()", FALSE, <<>>, <<>>, <<>>, <<>>)]_vars
    /\ [][(cls = "ResultVoid" /\ cls' = cls /\ ret'.op \in {".unwrap_err()", ".err()"})
            => (has_data' <=> (has_data /\ is_ok))]_vars
    /\ [](cls = "ResultVoid" => extracted <= 1)

\* err() has returned an absent Maybe on a success Result<void, E>, which is
\* not consumed.
C30_Witness ==
    /\ cls = "ResultVoid" /\ is_ok /\ has_data
    /\ ret = MaybeOf(".err()", FALSE, <<>>, <<>>, <<>>, <<>>)

\* C31: in v1.0.0 Unwrap() on a present Maybe or a success Result returns the
\* stored value and changes no flag and no payload, so Unwrap() after a
\* successful Unwrap() succeeds again.  In the final revision unwrap() returns
\* the stored value likewise, but clears has_value / has_data, and unwrap()
\* after a successful unwrap() throws (EmptyAccess on a Maybe, Consumed on a
\* Result).
C31_Revisions ==
    /\ [][(Call("V1.Maybe", "Unwrap()") /\ (has_value \/ "Unwrap()" \in took))
            => (/\ ret' = Ref("Unwrap()", value[1])
                /\ UNCHANGED <<has_value, is_error, has_data, value, error>>)]_vars
    /\ [][(Call("V1.Result", "Unwrap()") /\ (~is_error \/ "Unwrap()" \in took))
            => (/\ ret' = Ref("Unwrap()", value[1])
                /\ UNCHANGED <<has_value, is_error, has_data, value, error>>)]_vars
    /\ [][(Call("Maybe", ".unwrap()") /\ has_value)
            => (/\ ret' = Ref(".unwrap()", value[1])
                /\ ~has_value'
                /\ UNCHANGED <<is_error, has_data, value, error>>)]_vars
    /\ [][(Call("Result", ".unwrap()") /\ ~is_error /\ has_data)
            => (/\ ret' = Ref(".unwrap()", value[1])
                /\ ~has_data'
                /\ UNCHANGED <<has_value, is_error, value, error>>)]_vars
    /\ [][(Call("Maybe", ".unwrap()") /\ ".unwrap()" \in took)
            => Kind(ret') = "EmptyAccess"]_vars
    /\ [][(Call("Result", ".unwrap()") /\ ".unwrap()" \in took)
            => Kind(ret') = "Consumed"]_vars

\* A second Unwrap() on a v1.0.0 Maybe has returned the value again.
C31_Witness ==
    /\ cls = "V1.Maybe" /\ has_value /\ extracted = 2
    /\ took = {"Unwrap()"}
    /\ ret = Ref("Unwrap()", v0[1])

\* C33: a Maybe whose value was taken by unwrap() / map(), and a Result whose
\* payload was taken by unwrap() / unwrap_err() / ok() / err(), can be
\* destroyed, and its destructor then runs no payload destructor: from the
\* extraction on, through the destruction, the container has run none.
C33_ConsumedDestructible ==
    /\ [][(cls \in MaybeClasses \cup ResultClasses /\ extracted > 0 /\ cls' = "NoObject")
            => (ret'.tag = "void" /\ dtors' = dtors)]_vars
    /\ [](extracted > 0 => dtors = 0)
    /\ []((cls = "Maybe" /\ extracted > 0) => ENABLED Maybe_dtor)
    /\ []((cls = "Result" /\ extracted > 0) => ENABLED Result_dtor)

\* A Maybe whose value map() took was destroyed; no payload destructor ran.
C33_Witness ==
    /\ cls = "NoObject" /\ ret = Void("~Maybe()")
    /\ ctor = "Maybe(Some)" /\ took = {".map()"}
    /\ dtors = 0

\* C34: map(f) on a present Maybe<T&> calls f once, with the object the Maybe
\* is bound to, and returns a present Maybe<U> that owns f's result; on an
\* absent one it does not call f and returns an absent Maybe<U>.  Either way
\* the Maybe<T&> is absent afterwards, and the referent is neither changed
\* nor destroyed.
C34_RefMap ==
    [][Call("MaybeRef", ".map()")
         => /\ ret'.tag = "maybe"
            /\ ret'.fn \in Transforms
            /\ ret'.at = <<>>
            /\ has_value => (/\ ret'.calls = value
                             /\ ret'.some
                             /\ ret'.val = <<ret'.fn[mem[value[1]]]>>)
            /\ ~has_value => (~ret'.some /\ ret'.val = <<>> /\ ret'.calls = <<>>)
            /\ ~has_value'
            /\ UNCHANGED <<value, mem, dtors>>]_vars

\* map() on a present Maybe<T&> has returned f of the referent and left the
\* Maybe absent.
C34_Witness ==
    /\ cls = "MaybeRef" /\ ctor = "Maybe(Some)" /\ took = {".map()"}
    /\ ~has_value /\ value = v0
    /\ ret.op = ".map()" /\ ret.some /\ ret.calls = v0
    /\ ret.val = <<ret.fn[mem[v0[1]]]>>

\* The threads whose unwrap() returned the payload.
Got == {t \in Threads : out[t].tag = "value"}
AllDone == \A t \in Threads : pc[t] = "done"

\* C32: when the callers hold one mutex around every call, at most one thread
\* is inside unwrap() at a time, at most one unwrap() on a success Result
\* returns the payload, and once all calls are over exactly one has returned
\* it and every other one has thrown Consumed.  Without the mutex, while one
\* thread is between the check and the clearing of has_data and no thread has
\* cleared it yet, the check of another thread passes as well; once all calls
\* are over each has returned the payload or thrown Consumed, and at least one
\* has returned it.
C32_Race ==
    /\ [](sync => Cardinality({t \in Threads : pc[t] \in {"check", "unchecked", "return"}}) <= 1)
    /\ []((sync /\ ctor = "Result(Ok)") => (Cardinality(Got) <= 1 /\ extracted <= 1))
    /\ []((sync /\ ctor = "Result(Ok)" /\ AllDone)
            => \E t \in Threads :
                 /\ out[t] = Ref(".unwrap()", v0[1])
                 /\ \A u \in Threads \ {t} : Kind(out[u]) = "Consumed")
    /\ []((~sync /\ cls = "Result")
            => \A t \in Threads : \A u \in Threads \ {t} :
                 (pc[t] = "unchecked" /\ pc[u] = "check" /\ extracted = 0)
                   => ENABLED (Thread_CHECK_IF_VALID_T(u) /\ pc'[u] = "unchecked"))
    /\ []((~sync /\ ctor = "Result(Ok)" /\ AllDone)
            => (/\ Got # {}
                /\ \A t \in Threads :
                     out[t] = Ref(".unwrap()", v0[1]) \/ Kind(out[t]) = "Consumed"))

\* Without the mutex two threads have both returned from unwrap() with the payload.
C32_Witness ==
    /\ ~sync /\ cls = "Result" /\ ctor = "Result(Ok)"
    /\ \E t \in Threads : \E u \in Threads \ {t} :
         /\ pc[t] = "done" /\ pc[u] = "done"
         /\ out[t] = Ref(".unwrap()", v0[1])
         /\ out[u] = Ref(".unwrap()", v0[1])

====
